---- MODULE Spec2Model ----
(***************************************************************************)
(* Human-in-the-loop front desk: an AIAgent answers questions from its     *)
(* KnowledgeBase, escalates unknown questions into the HELP_REQUESTS       *)
(* ledger, and the supervisor UI's /respond handler resolves them.         *)
(*                                                                         *)
(* Python values that may be None are modelled as sequences of length at   *)
(* most one: None is << >> and the string s is << s >>.  A question is a   *)
(* sequence of characters so that str.lower() is computed, not assumed.    *)
(* The "timestamp" field of a record is written once and never read; it is *)
(* left out of the record.                                                 *)
(***************************************************************************)
EXTENDS Integers, Sequences, FiniteSets, TLC

\* Bounds of the model
MaxIds == 2
MaxLen == 1

Ids == 1..MaxIds
Chars == {"a", "A"}
Questions == UNION {[1..n -> Chars] : n \in 0..MaxLen}
AnswerTexts == {"", "9am-5pm", "Yes"}

None == << >>
Str(s) == << s >>
Answers == {Str(s) : s \in AnswerTexts}

\* The two AIAgent objects of the process: main.py's `agent` (line 20) and
\* supervisor_ui.py's module-level `agent` (line 90).
MainAgent == "main.agent"
UIAgent == "supervisor_ui.agent"
Agents == {MainAgent, UIAgent}

VARIABLES
    HELP_REQUESTS,  \* db.HELP_REQUESTS: the dict, as its items in insertion order
    facts,          \* facts[a]: the dict a.kb.facts of agent a
    issued,         \* identifiers uuid.uuid4() has returned so far
    out,            \* what the last operation printed, in order
    response,       \* what the last /respond request returned to the browser
    request         \* the /respond request the UI thread is serving, and where it is

vars == <<HELP_REQUESTS, facts, issued, out, response, request>>

----------------------------------------------------------------------------
\* str.lower()
LowerChar(c) == IF c = "A" THEN "a" ELSE c
lower(s) == [i \in 1..Len(s) |-> LowerChar(s[i])]

\* Python truthiness of a value that is None or a string
Truthy(v) == v # None /\ v # Str("")

\* dict operations on a dict whose keys are strings (kb.facts), as a function
EmptyDict == << >>
DictGet(d, k) == IF k \in DOMAIN d THEN d[k] ELSE None
DictSet(d, k, v) == [x \in (DOMAIN d) \cup {k} |-> IF x = k THEN v ELSE d[x]]

\* HELP_REQUESTS is a sequence of items [req_id, question, status, answer]
Keys(db) == {db[i].req_id : i \in DOMAIN db}
IndexOf(db, req_id) == CHOOSE i \in DOMAIN db : db[i].req_id = req_id
Get(db, req_id) == db[IndexOf(db, req_id)]

NewRequest(req_id, question) ==
    [req_id |-> req_id, question |-> question, status |-> "Pending", answer |-> None]

\* (mutant) the question is normalised before it is stored
create_help_request_lowercased(db, req_id, question) ==
    IF req_id \in Keys(db)
    THEN [db EXCEPT ![IndexOf(db, req_id)] = NewRequest(req_id, lower(question))]
    ELSE Append(db, NewRequest(req_id, lower(question)))

\* HELP_REQUESTS[req_id] = {...}: a present key keeps its place, a new one is appended
create_help_request(db, req_id, question) ==
    IF req_id \in Keys(db)
    THEN [db EXCEPT ![IndexOf(db, req_id)] = NewRequest(req_id, question)]
    ELSE Append(db, NewRequest(req_id, question))

\* (mutant) a request that is marked Resolved is taken out of the ledger
update_help_request_status_removes_resolved(db, req_id, status) ==
    IF status = "Resolved"
    THEN SelectSeq(db, LAMBDA item : item.req_id # req_id)
    ELSE IF req_id \in Keys(db)
         THEN [db EXCEPT ![IndexOf(db, req_id)].status = status]
         ELSE db

\* (mutant) the status is never written
update_help_request_status_skipped(db, req_id, status) == db

update_help_request_status(db, req_id, status) ==
    IF req_id \in Keys(db)
    THEN [db EXCEPT ![IndexOf(db, req_id)].status = status]
    ELSE db

save_answer(db, req_id, answer) ==
    IF req_id \in Keys(db)
    THEN [db EXCEPT ![IndexOf(db, req_id)].answer = answer]
    ELSE db

\* KnowledgeBase.load_facts: the loop over get_all_requests().items()
RECURSIVE load_facts_from(_, _, _)
load_facts_from(f, db, i) ==
    IF i > Len(db) THEN f
    ELSE IF db[i].status = "Resolved"
         THEN load_facts_from(DictSet(f, lower(db[i].question), db[i].answer), db, i + 1)
         ELSE load_facts_from(f, db, i + 1)
load_facts(f, db) == load_facts_from(f, db, 1)

\* KnowledgeBase.lookup
lookup(f, question) == DictGet(f, lower(question))

\* (mutant) the key is the question as asked, not its lower-cased form
RECURSIVE learn_keeps_case_from(_, _, _, _, _)
learn_keeps_case_from(f, db, i, req_id, answer) ==
    IF i > Len(db) THEN f
    ELSE IF db[i].req_id = req_id
         THEN DictSet(f, db[i].question, answer)
         ELSE learn_keeps_case_from(f, db, i + 1, req_id, answer)
learn_keeps_case(f, db, req_id, answer) == learn_keeps_case_from(f, db, 1, req_id, answer)

\* (mutant) the answer is added to the one already stored instead of replacing it
RECURSIVE learn_accumulates_from(_, _, _, _, _)
learn_accumulates_from(f, db, i, req_id, answer) ==
    IF i > Len(db) THEN f
    ELSE IF db[i].req_id = req_id
         THEN LET key == lower(db[i].question)
                  old == DictGet(f, key)
              IN  DictSet(f, key, IF old = None \/ answer = None THEN answer
                                  ELSE Str(old[1] \o answer[1]))
         ELSE learn_accumulates_from(f, db, i + 1, req_id, answer)
learn_accumulates(f, db, req_id, answer) == learn_accumulates_from(f, db, 1, req_id, answer)

\* (mutant) an answer already learned for the question is kept
RECURSIVE learn_first_writer_wins_from(_, _, _, _, _)
learn_first_writer_wins_from(f, db, i, req_id, answer) ==
    IF i > Len(db) THEN f
    ELSE IF db[i].req_id = req_id
         THEN IF lower(db[i].question) \in DOMAIN f THEN f
              ELSE DictSet(f, lower(db[i].question), answer)
         ELSE learn_first_writer_wins_from(f, db, i + 1, req_id, answer)
learn_first_writer_wins(f, db, req_id, answer) ==
    learn_first_writer_wins_from(f, db, 1, req_id, answer)

\* (mutant) the assignment is made after the loop, on the item the loop
\* variable was left at, whether or not it matched
RECURSIVE learn_after_loop_from(_, _, _, _, _)
learn_after_loop_from(f, db, i, req_id, answer) ==
    IF i > Len(db) THEN f
    ELSE IF db[i].req_id = req_id \/ i = Len(db)
         THEN DictSet(f, lower(db[i].question), answer)
         ELSE learn_after_loop_from(f, db, i + 1, req_id, answer)
learn_after_loop(f, db, req_id, answer) == learn_after_loop_from(f, db, 1, req_id, answer)

\* KnowledgeBase.learn: the loop over get_all_requests().items(), left at the match
RECURSIVE learn_from(_, _, _, _, _)
learn_from(f, db, i, req_id, answer) ==
    IF i > Len(db) THEN f
    ELSE IF db[i].req_id = req_id
         THEN DictSet(f, lower(db[i].question), answer)
         ELSE learn_from(f, db, i + 1, req_id, answer)
learn(f, db, req_id, answer) == learn_from(f, db, 1, req_id, answer)

\* The lines the program prints
AIAnswer(answer) == [kind |-> "AI", answer |-> answer]
AIDefer == [kind |-> "AI", defer |-> "Let me check with my supervisor and get back to you."]
TextToSupervisor(question, req_id) ==
    [kind |-> "TEXT TO SUPERVISOR", question |-> question, req_id |-> req_id]
TextToCustomer(answer, req_id) ==
    [kind |-> "TEXT TO CUSTOMER", answer |-> answer, req_id |-> req_id]

\* flask.redirect("/")
Redirect(path) == [status |-> 302, location |-> path]

\* Flask's answer to a request whose handler raised (debug=False)
InternalServerError == [status |-> 500]

\* The UI thread between two requests
Idle == [pc |-> "idle"]

\* uuid.uuid4(): an identifier it has not returned before.  Identifiers are
\* opaque tokens that the program only compares for equality, so the model
\* numbers them in the order uuid4 returns them.
uuid4 == {id \in Ids \ issued : \A other \in Ids \ issued : id <= other}

----------------------------------------------------------------------------
\* KnowledgeBase.__init__ on the state of HELP_REQUESTS at import time
KnowledgeBase == load_facts(EmptyDict, << >>)

Init ==
    /\ HELP_REQUESTS = << >>
    /\ facts = [a \in Agents |-> KnowledgeBase]
    /\ issued = {}
    /\ out = << >>
    /\ response = None
    /\ request = Idle

\* (mutant) a help request is logged for every call, answered or not
handle_call_logs_every_call(self, question) ==
    LET answer == lookup(facts[self], question) IN
    \E req_id \in uuid4 :
        /\ issued' = issued \cup {req_id}
        /\ HELP_REQUESTS' = create_help_request(HELP_REQUESTS, req_id, question)
        /\ out' = IF Truthy(answer) THEN << AIAnswer(answer) >>
                  ELSE << AIDefer, TextToSupervisor(question, req_id) >>
        /\ UNCHANGED <<facts, response, request>>

\* AIAgent.handle_call
handle_call(self, question) ==
    LET answer == lookup(facts[self], question) IN
    IF Truthy(answer)
    THEN /\ out' = << AIAnswer(answer) >>
         /\ UNCHANGED <<HELP_REQUESTS, facts, issued, response, request>>
    ELSE \E req_id \in uuid4 :
         /\ issued' = issued \cup {req_id}
         /\ HELP_REQUESTS' = create_help_request(HELP_REQUESTS, req_id, question)
         /\ out' = << AIDefer, TextToSupervisor(question, req_id) >>
         /\ UNCHANGED <<facts, response, request>>

\* supervisor_ui.respond, with AIAgent.respond_to_user on supervisor_ui.agent
respond(req_id, answer) ==
    LET saved == save_answer(HELP_REQUESTS, req_id, answer) IN
    /\ out' = << TextToCustomer(answer, req_id) >>
    /\ facts' = [facts EXCEPT ![UIAgent] = learn(@, saved, req_id, answer)]
    /\ HELP_REQUESTS' = update_help_request_status(saved, req_id, "Resolved")
    /\ response' = Redirect("/")
    /\ UNCHANGED <<issued, request>>

\* main.py: simulate_call(question) on main's agent
simulate_call == \E question \in Questions : handle_call(MainAgent, question)

\* POST /respond with any form fields req_id and answer
PostRespond == \E req_id \in Ids, answer \in Answers : respond(req_id, answer)

Next == simulate_call \/ PostRespond

Spec == Init /\ [][Next]_vars

----------------------------------------------------------------------------
\* The AIAgent class exercised on both of its instances: as Spec, and
\* handle_call may also be invoked on supervisor_ui.agent, the only agent
\* whose KnowledgeBase ever learns.
ui_handle_call == \E question \in Questions : handle_call(UIAgent, question)

NextAgent == simulate_call \/ PostRespond \/ ui_handle_call

SpecAgent == Init /\ [][NextAgent]_vars

\* The db module exercised alone: its three mutators called with any arguments.
Statuses == {"Pending", "Resolved"}

db_create(req_id, question) ==
    /\ HELP_REQUESTS' = create_help_request(HELP_REQUESTS, req_id, question)
    /\ UNCHANGED <<facts, issued, out, response, request>>

db_update_status(req_id, status) ==
    /\ HELP_REQUESTS' = update_help_request_status(HELP_REQUESTS, req_id, status)
    /\ UNCHANGED <<facts, issued, out, response, request>>

db_save_answer(req_id, answer) ==
    /\ HELP_REQUESTS' = save_answer(HELP_REQUESTS, req_id, answer)
    /\ UNCHANGED <<facts, issued, out, response, request>>

CallCreate == \E req_id \in Ids, question \in Questions : db_create(req_id, question)
CallUpdateStatus == \E req_id \in Ids, status \in Statuses : db_update_status(req_id, status)
CallSaveAnswer == \E req_id \in Ids, answer \in Answers : db_save_answer(req_id, answer)

NextLedger == CallCreate \/ CallUpdateStatus \/ CallSaveAnswer

SpecLedger == Init /\ [][NextLedger]_vars

----------------------------------------------------------------------------
\* The two threads of main.py: the caller thread runs handle_call on main's
\* agent, the UI thread serves one /respond request at a time, statement by
\* statement.  The program has no lock, so a handle_call may run between any
\* two statements of respond.

\* respond, lines 118-119: the form fields are read
respond_begin(req_id, answer) ==
    /\ request.pc = "idle"
    /\ request' = [pc |-> "save_answer", req_id |-> req_id, answer |-> answer,
                   size |-> 0, pos |-> 0]
    /\ UNCHANGED <<HELP_REQUESTS, facts, issued, out, response>>

\* respond, line 120
respond_save_answer ==
    /\ request.pc = "save_answer"
    /\ HELP_REQUESTS' = save_answer(HELP_REQUESTS, request.req_id, request.answer)
    /\ request' = [request EXCEPT !.pc = "print"]
    /\ UNCHANGED <<facts, issued, out, response>>

\* respond_to_user, line 52
respond_to_user_print ==
    /\ request.pc = "print"
    /\ out' = << TextToCustomer(request.answer, request.req_id) >>
    /\ request' = [request EXCEPT !.pc = "learn"]
    /\ UNCHANGED <<HELP_REQUESTS, facts, issued, response>>

\* learn, line 144: the iterator over get_all_requests().items() is made; it
\* remembers the size of the dict
learn_iter ==
    /\ request.pc = "learn"
    /\ request' = [request EXCEPT !.pc = "learn_next", !.size = Len(HELP_REQUESTS), !.pos = 0]
    /\ UNCHANGED <<HELP_REQUESTS, facts, issued, out, response>>

\* learn, lines 144-147: one turn of the loop.  The iterator raises
\* RuntimeError (dictionary changed size during iteration) when the dict has
\* grown since the iterator was made; nothing catches it and the request ends
\* there.
learn_next ==
    /\ request.pc = "learn_next"
    /\ IF Len(HELP_REQUESTS) # request.size
       THEN /\ response' = InternalServerError
            /\ request' = Idle
            /\ UNCHANGED facts
       ELSE IF request.pos = request.size
       THEN /\ request' = [request EXCEPT !.pc = "update_status"]
            /\ UNCHANGED <<facts, response>>
       ELSE IF HELP_REQUESTS[request.pos + 1].req_id = request.req_id
       THEN /\ facts' = [facts EXCEPT ![UIAgent] =
                           DictSet(@, lower(HELP_REQUESTS[request.pos + 1].question),
                                   request.answer)]
            /\ request' = [request EXCEPT !.pc = "update_status"]
            /\ UNCHANGED response
       ELSE /\ request' = [request EXCEPT !.pos = @ + 1]
            /\ UNCHANGED <<facts, response>>
    /\ UNCHANGED <<HELP_REQUESTS, issued, out>>

\* respond_to_user, line 54
respond_to_user_update ==
    /\ request.pc = "update_status"
    /\ HELP_REQUESTS' = update_help_request_status(HELP_REQUESTS, request.req_id, "Resolved")
    /\ request' = [request EXCEPT !.pc = "return"]
    /\ UNCHANGED <<facts, issued, out, response>>

\* respond, line 122
respond_return ==
    /\ request.pc = "return"
    /\ response' = Redirect("/")
    /\ request' = Idle
    /\ UNCHANGED <<HELP_REQUESTS, facts, issued, out>>

BeginRespond == \E req_id \in Ids, answer \in Answers : respond_begin(req_id, answer)

NextThreads ==
    \/ simulate_call
    \/ BeginRespond
    \/ respond_save_answer
    \/ respond_to_user_print
    \/ learn_iter
    \/ learn_next
    \/ respond_to_user_update
    \/ respond_return

SpecThreads == Init /\ [][NextThreads]_vars

----------------------------------------------------------------------------
\* Vocabulary of the properties
Pending(db, req_id) == req_id \in Keys(db) /\ Get(db, req_id).status = "Pending"
Resolved(db, req_id) == req_id \in Keys(db) /\ Get(db, req_id).status = "Resolved"
SameQuestion(q1, q2) == lower(q1) = lower(q2)
Printed(lines, line) == \E i \in DOMAIN lines : lines[i] = line
HasUpper(q) == q # lower(q)

\* the resolved records whose question is `question` up to letter case
ResolvedFor(db, question) ==
    {i \in DOMAIN db : db[i].status = "Resolved" /\ SameQuestion(db[i].question, question)}

\* C1: a question that was escalated and resolved with a non-empty answer A
\* is, when main's agent is asked it again in any letter case, answered at
\* once with A, and no new ledger record is created.
C1_ReaskAnsweredWithoutEscalation ==
    [][\A question \in Questions, answer \in Answers :
         ( /\ handle_call(MainAgent, question)
           /\ answer # Str("")
           /\ ResolvedFor(HELP_REQUESTS, question) # {}
           /\ \A i \in ResolvedFor(HELP_REQUESTS, question) : HELP_REQUESTS[i].answer = answer )
         => /\ out' = << AIAnswer(answer) >>
            /\ HELP_REQUESTS' = HELP_REQUESTS]_vars

\* C2: a resolve of an existing Pending record with answer A leaves the record
\* Resolved with answer A, prints the customer notification carrying A and the
\* identifier, and makes the resolving agent's Fact Store return A for the
\* record's question in every letter casing.
C2_ResolveEffects ==
    [][\A req_id \in Ids, answer \in Answers :
         (respond(req_id, answer) /\ Pending(HELP_REQUESTS, req_id))
         => /\ Resolved(HELP_REQUESTS', req_id)
            /\ Get(HELP_REQUESTS', req_id).answer = answer
            /\ Printed(out', TextToCustomer(answer, req_id))
            /\ \A q \in Questions :
                  SameQuestion(q, Get(HELP_REQUESTS, req_id).question)
                  => lookup(facts'[UIAgent], q) = answer]_vars

\* C2 witness: a record asked with an upper-case letter has just been resolved
C2_Witness ==
    \E req_id \in Keys(HELP_REQUESTS), answer \in Answers :
        /\ out = << TextToCustomer(answer, req_id) >>
        /\ Resolved(HELP_REQUESTS, req_id)
        /\ Get(HELP_REQUESTS, req_id).answer = answer
        /\ HasUpper(Get(HELP_REQUESTS, req_id).question)

\* C3: handle_call of a question with no Fact Store entry adds exactly one
\* record, under an identifier not in the ledger before, with the question
\* verbatim, status Pending and answer None; every other record is unchanged
\* and the escalation notice carries that identifier and the question.
C3_EscalationCreatesOneRecord ==
    [][\A self \in Agents, question \in Questions :
         (handle_call(self, question) /\ lookup(facts[self], question) = None)
         => \E req_id \in Ids \ Keys(HELP_REQUESTS) :
               /\ Keys(HELP_REQUESTS') = Keys(HELP_REQUESTS) \cup {req_id}
               /\ Len(HELP_REQUESTS') = Len(HELP_REQUESTS) + 1
               /\ Get(HELP_REQUESTS', req_id).question = question
               /\ Get(HELP_REQUESTS', req_id).status = "Pending"
               /\ Get(HELP_REQUESTS', req_id).answer = None
               /\ \A other \in Keys(HELP_REQUESTS) :
                     Get(HELP_REQUESTS', other) = Get(HELP_REQUESTS, other)
               /\ Printed(out', TextToSupervisor(question, req_id))]_vars

\* C3 witness: a question with an upper-case letter has just been escalated
\* into a ledger that already held another record
C3_Witness ==
    \E req_id \in Keys(HELP_REQUESTS), question \in Questions :
        /\ HasUpper(question)
        /\ out = << AIDefer, TextToSupervisor(question, req_id) >>
        /\ Pending(HELP_REQUESTS, req_id)
        /\ Len(HELP_REQUESTS) > 1

\* C4: a handle_call that is answered at once leaves the ledger and every
\* Fact Store unchanged.
C4_ImmediateAnswerChangesNothing ==
    [][\A self \in Agents, question \in Questions :
         (handle_call(self, question) /\ \E answer \in Answers : out' = << AIAnswer(answer) >>)
         => HELP_REQUESTS' = HELP_REQUESTS /\ facts' = facts]_vars

\* C4 witness: a question has just been answered at once, an unused
\* identifier still being available
C4_Witness ==
    /\ \E answer \in Answers : out = << AIAnswer(answer) >>
    /\ uuid4 # {}

\* C5: between operations, every ledger record has an answer if and only if
\* its status is Resolved.
C5_AnswerIffResolved ==
    \A i \in DOMAIN HELP_REQUESTS :
        (HELP_REQUESTS[i].answer # None) <=> (HELP_REQUESTS[i].status = "Resolved")

\* C5 witness: one record resolved by the last operation, another still pending
C5_Witness ==
    \E i, j \in DOMAIN HELP_REQUESTS :
        /\ HELP_REQUESTS[i].status = "Resolved"
        /\ HELP_REQUESTS[i].answer # None
        /\ out = << TextToCustomer(HELP_REQUESTS[i].answer, HELP_REQUESTS[i].req_id) >>
        /\ HELP_REQUESTS[j].status = "Pending"

\* C6: a resolve of an identifier that is not in the ledger returns an error
\* to the submitter, not what a successful resolve returns (the redirect).
C6_UnknownIdReportsError ==
    [][\A req_id \in Ids, answer \in Answers :
         (respond(req_id, answer) /\ req_id \notin Keys(HELP_REQUESTS))
         => response' # Redirect("/")]_vars

\* C7: a resolve with the empty string as answer, of an existing Pending
\* record, leaves that record Pending with answer None and every Fact Store
\* unchanged.
C7_EmptyAnswerRejected ==
    [][\A req_id \in Ids :
         (respond(req_id, Str("")) /\ Pending(HELP_REQUESTS, req_id))
         => /\ Pending(HELP_REQUESTS', req_id)
            /\ Get(HELP_REQUESTS', req_id).answer = None
            /\ facts' = facts]_vars

\* C8: once a record is Resolved, no later operation changes its status or
\* its stored answer.
C8_ResolvedRecordFrozen ==
    [][\A req_id \in Ids :
         Resolved(HELP_REQUESTS, req_id)
         => /\ Resolved(HELP_REQUESTS', req_id)
            /\ Get(HELP_REQUESTS', req_id).answer = Get(HELP_REQUESTS, req_id).answer]_vars

\* C9: create_help_request with an identifier that is already a key of the
\* ledger fails and leaves the ledger as it was; with an absent identifier it
\* inserts a Pending record with answer None.
C9_CreateRejectsExistingId ==
    [][\A req_id \in Ids, question \in Questions :
         db_create(req_id, question)
         => IF req_id \in Keys(HELP_REQUESTS)
            THEN HELP_REQUESTS' = HELP_REQUESTS
            ELSE HELP_REQUESTS' = Append(HELP_REQUESTS, NewRequest(req_id, question))]_vars

\* C10: for the ledger and Fact Store of every reachable state and every
\* (identifier, answer), learning twice gives the Fact Store that learning
\* once gives.
C10_LearnIdempotent ==
    \A self \in Agents, req_id \in Ids, answer \in Answers :
        LET once == learn(facts[self], HELP_REQUESTS, req_id, answer)
        IN  learn(once, HELP_REQUESTS, req_id, answer) = once

\* C10 witness: the UI agent has learned an answer, and learning another
\* answer for a record of the same question would overwrite it
C10_Witness ==
    \E i \in DOMAIN HELP_REQUESTS, answer \in Answers :
        /\ out = << TextToCustomer(HELP_REQUESTS[i].answer, HELP_REQUESTS[i].req_id) >>
        /\ lookup(facts[UIAgent], HELP_REQUESTS[i].question) = HELP_REQUESTS[i].answer
        /\ learn(facts[UIAgent], HELP_REQUESTS, HELP_REQUESTS[i].req_id, answer) # facts[UIAgent]

\* C11: when a record whose question equals, up to letter case, that of a
\* record already resolved is resolved in its turn with answer A2, the Fact
\* Store of the resolving agent holds exactly one entry for the lower-cased
\* question and lookup returns A2.
C11_LastWriterWins ==
    [][\A id1 \in Ids, id2 \in Ids, a2 \in Answers :
         ( /\ respond(id2, a2)
           /\ id1 # id2
           /\ Resolved(HELP_REQUESTS, id1)
           /\ Pending(HELP_REQUESTS, id2)
           /\ SameQuestion(Get(HELP_REQUESTS, id1).question, Get(HELP_REQUESTS, id2).question) )
         => LET question == Get(HELP_REQUESTS, id2).question IN
            /\ lookup(facts'[UIAgent], question) = a2
            /\ {k \in DOMAIN facts'[UIAgent] : SameQuestion(k, question)}
                  = {lower(question)}]_vars

\* C11 witness: two records asked in different letter case, resolved with
\* different answers, the second one by the last operation
C11_Witness ==
    \E i, j \in DOMAIN HELP_REQUESTS :
        /\ i # j
        /\ HELP_REQUESTS[i].status = "Resolved"
        /\ HELP_REQUESTS[j].status = "Resolved"
        /\ HELP_REQUESTS[i].question # HELP_REQUESTS[j].question
        /\ SameQuestion(HELP_REQUESTS[i].question, HELP_REQUESTS[j].question)
        /\ HELP_REQUESTS[i].answer # HELP_REQUESTS[j].answer
        /\ out = << TextToCustomer(HELP_REQUESTS[j].answer, HELP_REQUESTS[j].req_id) >>
        /\ lookup(facts[UIAgent], HELP_REQUESTS[i].question) = HELP_REQUESTS[j].answer

\* C15: handle_call escalates if and only if the agent's Fact Store has no
\* entry for the lower-cased question; with an entry, whatever text it holds,
\* the stored answer is printed at once and no ledger record is created.
C15_EscalatesIffNoEntry ==
    [][\A self \in Agents, question \in Questions :
         handle_call(self, question)
         => IF lower(question) \in DOMAIN facts[self]
            THEN /\ out' = << AIAnswer(facts[self][lower(question)]) >>
                 /\ HELP_REQUESTS' = HELP_REQUESTS
            ELSE /\ Len(HELP_REQUESTS') = Len(HELP_REQUESTS) + 1
                 /\ \E req_id \in Ids : Printed(out', TextToSupervisor(question, req_id))]_vars

\* C16: a resolve, an update_status and a save_answer for an identifier that
\* is not in the ledger leave the ledger and every Fact Store as they were.
C16_AbsentIdChangesNothing ==
    [][\A req_id \in Ids \ Keys(HELP_REQUESTS) :
         /\ \A answer \in Answers :
               /\ respond(req_id, answer) => HELP_REQUESTS' = HELP_REQUESTS /\ facts' = facts
               /\ save_answer(HELP_REQUESTS, req_id, answer) = HELP_REQUESTS
               /\ \A self \in Agents :
                     learn(facts[self], HELP_REQUESTS, req_id, answer) = facts[self]
         /\ \A status \in Statuses :
               update_help_request_status(HELP_REQUESTS, req_id, status) = HELP_REQUESTS]_vars

\* C16 witness: the last operation was a resolve of an identifier that is not
\* in the ledger, the ledger holding a record and the Fact Store an entry
C16_Witness ==
    \E req_id \in Ids \ Keys(HELP_REQUESTS), answer \in Answers :
        /\ out = << TextToCustomer(answer, req_id) >>
        /\ HELP_REQUESTS # << >>
        /\ facts[UIAgent] # EmptyDict

\* C17: across handle_call and resolve operations no identifier leaves the
\* ledger and no record's question changes.
C17_RecordsKeptQuestionsImmutable ==
    [][\A req_id \in Keys(HELP_REQUESTS) :
         /\ req_id \in Keys(HELP_REQUESTS')
         /\ Get(HELP_REQUESTS', req_id).question = Get(HELP_REQUESTS, req_id).question]_vars

\* C17 witness: a record has been resolved and a later call has added another
C17_Witness ==
    /\ Len(HELP_REQUESTS) > 1
    /\ HELP_REQUESTS[1].status = "Resolved"
    /\ HasUpper(HELP_REQUESTS[1].question)
    /\ \E req_id \in Ids, question \in Questions :
          out = << AIDefer, TextToSupervisor(question, req_id) >>

\* C19: every customer notification printed names an identifier that is a
\* key of the ledger.
C19_NotificationNamesLedgerKey ==
    \A i \in DOMAIN out :
        out[i].kind = "TEXT TO CUSTOMER" => out[i].req_id \in Keys(HELP_REQUESTS)

\* C12: at the moment the customer notification for an identifier of the
\* ledger is printed, that record already has status Resolved and holds the
\* answer (the record is persisted and marked Resolved before the
\* notification, the Fact Store is taught after it).
C12_ResolvedBeforeNotification ==
    [][(request.pc = "print" /\ request'.pc = "learn"
          /\ request.req_id \in Keys(HELP_REQUESTS))
       => /\ Resolved(HELP_REQUESTS', request.req_id)
          /\ Get(HELP_REQUESTS', request.req_id).answer = request.answer]_vars

\* C13: in every state, those between the statements of a resolve included,
\* a ledger record has no answer exactly when it is Pending.
C13_AnswerIffResolvedBetweenSteps ==
    \A req_id \in Keys(HELP_REQUESTS) :
        (Get(HELP_REQUESTS, req_id).answer = None) <=> Pending(HELP_REQUESTS, req_id)

\* C14: in every state, every key of every agent's Fact Store is the
\* lower-cased question of some ledger record that is Resolved in that state.
C14_FactKeysFromResolvedRecords ==
    \A self \in Agents : \A key \in DOMAIN facts[self] :
        \E i \in DOMAIN HELP_REQUESTS :
            /\ HELP_REQUESTS[i].status = "Resolved"
            /\ lower(HELP_REQUESTS[i].question) = key

\* C18: a resolve of an existing Pending identifier runs to completion
\* whatever the caller thread does meanwhile: once the UI thread is idle
\* again, no record whose answer a resolve has stored is left Pending.
C18_ResolveRunsToCompletion ==
    request.pc = "idle"
    => \A i \in DOMAIN HELP_REQUESTS :
          HELP_REQUESTS[i].answer # None => HELP_REQUESTS[i].status = "Resolved"

====
